---------------------------- MODULE Spec2Model ----------------------------
(***************************************************************************)
(* Image inspection of the Swift runtime on ELF platforms.                 *)
(*                                                                         *)
(*  - ImageInspectionELF.cpp: the two section registries (protocol         *)
(*    conformances, type metadata records).  Images contribute blocks from *)
(*    any thread; the runtime activates each registry, which drains the    *)
(*    buffered blocks into the runtime's callback.                         *)
(*  - StaticBinaryELF.cpp: the parser of the running static executable    *)
(*    behind _swift_dladdr.                                                *)
(*                                                                         *)
(* The registries are checked under SpecRegistry, the parser under SpecELF.*)
(* Memory is sequentially consistent: every load and store of a global is  *)
(* one step.                                                               *)
(***************************************************************************)
EXTENDS Integers, Sequences, FiniteSets, TLC

\* ------------------------------------------------------------------ bounds
\* Threads calling into the registries.
NThreads == 2
\* Calls (contribute or activate) made in one run, over all threads.
MaxCalls == 3
\* Calls of initialize...Lookup made in one run, per registry.
MaxActivate == 2

\* Program headers and section headers of an input file.
MaxPhdrs == 2
MaxSections == 2

\* Calls of _swift_dladdr made in one run, over all threads.
MaxDladdr == 3
\* Calls into the static registries made in one run.
MaxStaticCalls == 3

Threads == 1..NThreads
Registries == {"conformance", "typeMetadata"}
\* SectionInfo.size of a contributed block: absent section, or some bytes.
BlockSizes == {0, 8}
NoThread == 0

VARIABLES
  \* ---- ImageInspectionELF.cpp
  onceToken,   \* [Registries -> "uninit" | "running" | "done"], the static OnceToken_t
  blocks,      \* [Registries -> [alloc, vec]], protocolConformanceBlocks / typeMetadataRecordBlocks
  lock,        \* [Registries -> [alloc, owner]], protocolConformanceLock / typeMetadataLock
  pc,          \* [Threads -> position of the thread inside its call]
  call,        \* [Threads -> [reg, block]], the arguments of the thread's call
  delivered,   \* [Registries -> sequence of blocks the callback was invoked with]
  failure,     \* NoFailure, or the call [op, reg, thread] that ended the process
  \* ---- history of the run (what was called, in which order)
  called,      \* [Registries -> sequence of the blocks of the contribute calls, in call order]
  acquired,    \* [Registries -> blocks of the contribute calls, in the order they took the lock]
  actCalls,    \* [Registries -> number of initialize...Lookup calls started]
  actDone,     \* [Registries -> number of initialize...Lookup calls returned]
  initRuns,    \* [Registries -> number of runs of the first-use initializer]
  nCalls,      \* calls started so far
  serial,      \* TRUE while no call has started during another call
  \* ---- StaticBinaryELF.cpp
  file,        \* the executable: its size and the ELF structures in it (input)
  elfPc,       \* position of the constructor, "constructed" once it has returned
  fileSize,    \* StaticBinaryELF::fileSize
  mapLength,   \* StaticBinaryELF::mapLength
  mapping,     \* StaticBinaryELF::mapping: the base of the mapped region, NullPtr if none
  elfHeader,   \* StaticBinaryELF::elfHeader: the base it points to, NullPtr if null
  symbolTable, \* StaticBinaryELF::symbolTable: [base, index] of a section header, or NullShdr
  stringTable, \* StaticBinaryELF::stringTable: likewise
  parseError,  \* why construction gave up, "none" if it did not
  fault,       \* the signal that ended the process, "none" if none
  answer,      \* the last query and what it returned
  \* ---- _swift_dladdr
  dlPc,        \* [Threads -> position of the thread inside _swift_dladdr]
  dlToken,     \* the static pthread_once_t: "uninit" | "running" | "done"
  binary,      \* the static StaticBinaryELF *binary: NullPtr, or 1 for the instance
  instances,   \* history: StaticBinaryELF objects constructed so far
  constructors,\* history: the threads that ran the pthread_once initializer
  dlCalls,     \* history: calls of _swift_dladdr started so far
  \* ---- ImageInspectionStatic.cpp
  staticBlocks,    \* [Registries -> SectionInfo], protocolConformances / typeMetadata
  staticDelivered, \* [Registries -> sequence of blocks the callback was invoked with]
  staticCalls      \* history: calls made so far

regVars == <<onceToken, blocks, lock, pc, call, delivered, failure,
             called, acquired, actCalls, actDone, initRuns, nCalls, serial>>

elfVars == <<file, elfPc, fileSize, mapLength, mapping, elfHeader,
             symbolTable, stringTable, parseError, fault, answer>>

dlVars == <<dlPc, dlToken, binary, instances, constructors, dlCalls>>

staticVars == <<staticBlocks, staticDelivered, staticCalls>>

vars == <<regVars, elfVars, dlVars, staticVars>>

\* ------------------------------------------------------------- SectionInfo
SectionInfo(d, s) == [data |-> d, size |-> s]
NoBlock == SectionInfo(0, 0)
\* The arguments of a thread that is in no call.
NoCall == [reg |-> "none", block |-> NoBlock]
NullVector == [alloc |-> FALSE, vec |-> <<>>]
NullMutex == [alloc |-> FALSE, owner |-> NoThread]

\* ----------------------------------------------- swift/Basic/Lazy.h, Mutex.h
\* SWIFT_ONCE_F(token, fn): the first caller runs fn, callers arriving while it
\* runs wait, callers arriving after it has finished pass through.
OnceMustRun(r) == onceToken[r] = "uninit"
OncePasses(r) == onceToken[r] = "done"
\* ScopedLock guard(mutex): blocks until the mutex is free.
MutexFree(r) == lock[r].owner = NoThread

\* No call has ended the process.
NoFailure == [op |-> "none", reg |-> "none", thread |-> NoThread]
Alive == failure = NoFailure

RegInit ==
  /\ onceToken = [r \in Registries |-> "uninit"]
  /\ blocks = [r \in Registries |-> NullVector]
  /\ lock = [r \in Registries |-> NullMutex]
  /\ pc = [t \in Threads |-> "idle"]
  /\ call = [t \in Threads |-> NoCall]
  /\ delivered = [r \in Registries |-> <<>>]
  /\ failure = NoFailure
  /\ called = [r \in Registries |-> <<>>]
  /\ acquired = [r \in Registries |-> <<>>]
  /\ actCalls = [r \in Registries |-> 0]
  /\ actDone = [r \in Registries |-> 0]
  /\ initRuns = [r \in Registries |-> 0]
  /\ nCalls = 0
  /\ serial = TRUE

\* The process has died: the call (op, r) of thread t did not complete.
Crash(op, r, t) == failure' = [op |-> op, reg |-> r, thread |-> t]

\* The callback addImage...BlockCallback(block.data, block.size).
Callback(r, b) == delivered' = [delivered EXCEPT ![r] = Append(@, b)]

\* ----------------------------------------------------- addImage...Block
\* A thread calls addImageProtocolConformanceBlock / addImageTypeMetadataRecordBlock.
AddImageBlock(t) ==
  /\ Alive /\ pc[t] = "idle" /\ nCalls < MaxCalls
  /\ \E r \in Registries, s \in BlockSizes :
       LET b == SectionInfo(nCalls + 1, s) IN
       /\ call' = [call EXCEPT ![t] = [reg |-> r, block |-> b]]
       /\ called' = [called EXCEPT ![r] = Append(@, b)]
  /\ pc' = [pc EXCEPT ![t] = "once"]
  /\ nCalls' = nCalls + 1
  /\ serial' = (serial /\ \A u \in Threads : pc[u] = "idle")
  /\ UNCHANGED <<onceToken, blocks, lock, delivered, failure, acquired,
                 actCalls, actDone, initRuns>>
  /\ UNCHANGED <<elfVars, dlVars, staticVars>>

\* if (block.size > 0)
ShouldRegisterEvenEmpty(b) == TRUE
ShouldRegister(b) == b.size > 0

\* After SWIFT_ONCE_F: a block with bytes goes on to the lock, an empty one
\* makes the call return.
AfterOnce(t) ==
  IF ShouldRegister(call[t].block)
    THEN /\ pc' = [pc EXCEPT ![t] = "lock"]
         /\ UNCHANGED call
    ELSE /\ pc' = [pc EXCEPT ![t] = "idle"]
         /\ call' = [call EXCEPT ![t] = NoCall]

\* The initializer is entered: the token is taken.
EnterInitializer(t, r) ==
  /\ onceToken' = [onceToken EXCEPT ![r] = "running"]
  /\ initRuns' = [initRuns EXCEPT ![r] = @ + 1]
  /\ pc' = [pc EXCEPT ![t] = "initBlocks"]
  /\ UNCHANGED call

\* A hand-written first-use test in place of the once token:
\* if (...Blocks == nullptr) { initializer }.
AddImageBlockOnceUnguarded(t) ==
  /\ Alive /\ pc[t] = "once"
  /\ LET r == call[t].reg IN
       IF ~blocks[r].alloc /\ actDone[r] = 0
         THEN EnterInitializer(t, r)
         ELSE AfterOnce(t) /\ UNCHANGED <<onceToken, initRuns>>
  /\ UNCHANGED <<blocks, lock, delivered, failure, called, acquired,
                 actCalls, actDone, nCalls, serial>>
  /\ UNCHANGED <<elfVars, dlVars, staticVars>>

\* static OnceToken_t onceToken; SWIFT_ONCE_F(onceToken, initializer, nullptr):
\* the caller runs the initializer, waits for the thread running it, or passes.
AddImageBlockOnce(t) ==
  /\ Alive /\ pc[t] = "once"
  /\ LET r == call[t].reg IN
       \/ OnceMustRun(r) /\ EnterInitializer(t, r)
       \/ OncePasses(r) /\ AfterOnce(t) /\ UNCHANGED <<onceToken, initRuns>>
  /\ UNCHANGED <<blocks, lock, delivered, failure, called, acquired,
                 actCalls, actDone, nCalls, serial>>
  /\ UNCHANGED <<elfVars, dlVars, staticVars>>

\* The initializer: ...Blocks = new std::vector<SectionInfo>();
InitBlocks(t) ==
  /\ Alive /\ pc[t] = "initBlocks"
  /\ blocks' = [blocks EXCEPT ![call[t].reg] = [alloc |-> TRUE, vec |-> <<>>]]
  /\ pc' = [pc EXCEPT ![t] = "initLock"]
  /\ UNCHANGED <<onceToken, lock, call, delivered, failure, called, acquired,
                 actCalls, actDone, initRuns, nCalls, serial>>
  /\ UNCHANGED <<elfVars, dlVars, staticVars>>

\* The initializer: ...Lock = new Mutex();
InitLock(t) ==
  /\ Alive /\ pc[t] = "initLock"
  /\ lock' = [lock EXCEPT ![call[t].reg] = [alloc |-> TRUE, owner |-> NoThread]]
  /\ pc' = [pc EXCEPT ![t] = "initDone"]
  /\ UNCHANGED <<onceToken, blocks, call, delivered, failure, called, acquired,
                 actCalls, actDone, initRuns, nCalls, serial>>
  /\ UNCHANGED <<elfVars, dlVars, staticVars>>

\* The initializer returns: the token is done, the caller goes on.
InitDone(t) ==
  /\ Alive /\ pc[t] = "initDone"
  /\ onceToken' = [onceToken EXCEPT ![call[t].reg] = "done"]
  /\ AfterOnce(t)
  /\ UNCHANGED <<blocks, lock, delivered, failure, called, acquired,
                 actCalls, actDone, initRuns, nCalls, serial>>
  /\ UNCHANGED <<elfVars, dlVars, staticVars>>

\* The block is added with no guard taken.
AddImageBlockLockOmitted(t) ==
  /\ Alive /\ pc[t] = "lock"
  /\ pc' = [pc EXCEPT ![t] = "locked"]
  /\ acquired' = [acquired EXCEPT ![call[t].reg] = Append(@, call[t].block)]
  /\ UNCHANGED <<onceToken, blocks, lock, call, delivered, failure, called,
                 actCalls, actDone, initRuns, nCalls, serial>>
  /\ UNCHANGED <<elfVars, dlVars, staticVars>>

\* ScopedLock guard(*...Lock): waits for the mutex; a null lock pointer is
\* dereferenced and the process dies.
AddImageBlockLock(t) ==
  /\ Alive /\ pc[t] = "lock"
  /\ LET r == call[t].reg IN
     IF ~lock[r].alloc
       THEN /\ Crash("contribute", r, t)
            /\ pc' = [pc EXCEPT ![t] = "crashed"]
            /\ UNCHANGED <<lock, acquired>>
       ELSE /\ MutexFree(r)
            /\ lock' = [lock EXCEPT ![r].owner = t]
            /\ acquired' = [acquired EXCEPT ![r] = Append(@, call[t].block)]
            /\ pc' = [pc EXCEPT ![t] = "locked"]
            /\ UNCHANGED failure
  /\ UNCHANGED <<onceToken, blocks, call, delivered, called,
                 actCalls, actDone, initRuns, nCalls, serial>>
  /\ UNCHANGED <<elfVars, dlVars, staticVars>>

\* The guard goes out of scope: the mutex is released if this thread holds it.
Unlock(t, r) ==
  lock' = [lock EXCEPT ![r].owner = IF @ = t THEN NoThread ELSE @]

\* Under the lock: if (...Blocks == nullptr)
AddImageBlockTest(t) ==
  /\ Alive /\ pc[t] = "locked"
  /\ pc' = [pc EXCEPT ![t] = IF ~blocks[call[t].reg].alloc THEN "forward" ELSE "buffer"]
  /\ UNCHANGED <<onceToken, blocks, lock, call, delivered, failure, called, acquired,
                 actCalls, actDone, initRuns, nCalls, serial>>
  /\ UNCHANGED <<elfVars, dlVars, staticVars>>

\* addImage...BlockCallback(block.data, block.size); the call returns.
AddImageBlockForward(t) ==
  /\ Alive /\ pc[t] = "forward"
  /\ Callback(call[t].reg, call[t].block)
  /\ Unlock(t, call[t].reg)
  /\ pc' = [pc EXCEPT ![t] = "idle"]
  /\ call' = [call EXCEPT ![t] = NoCall]
  /\ UNCHANGED <<onceToken, blocks, failure, called, acquired,
                 actCalls, actDone, initRuns, nCalls, serial>>
  /\ UNCHANGED <<elfVars, dlVars, staticVars>>

\* ...Blocks->push_back(block)
PushFront(vec, b) == <<b>> \o vec
PushBack(vec, b) == Append(vec, b)

\* ...Blocks->push_back(block); the call returns.
AddImageBlockBuffer(t) ==
  /\ Alive /\ pc[t] = "buffer"
  /\ blocks' = [blocks EXCEPT ![call[t].reg].vec = PushBack(@, call[t].block)]
  /\ Unlock(t, call[t].reg)
  /\ pc' = [pc EXCEPT ![t] = "idle"]
  /\ call' = [call EXCEPT ![t] = NoCall]
  /\ UNCHANGED <<onceToken, delivered, failure, called, acquired,
                 actCalls, actDone, initRuns, nCalls, serial>>
  /\ UNCHANGED <<elfVars, dlVars, staticVars>>

\* ------------------------------------------------- initialize...Lookup
\* assert(...Lock != nullptr)
LookupPreconditionOnBlocks(r) == blocks[r].alloc
LookupPrecondition(r) == lock[r].alloc

\* A thread calls initializeProtocolConformanceLookup / initializeTypeMetadataRecordLookup.
\* The assertion fails on a null lock pointer; compiled without assertions, the
\* guard dereferences the null pointer.  Either way the process dies.
InitializeLookup(t) ==
  /\ Alive /\ pc[t] = "idle" /\ nCalls < MaxCalls
  /\ \E r \in Registries :
       /\ actCalls[r] < MaxActivate
       /\ call' = [call EXCEPT ![t] = [reg |-> r, block |-> NoBlock]]
       /\ actCalls' = [actCalls EXCEPT ![r] = @ + 1]
       /\ IF ~LookupPrecondition(r)
            THEN /\ Crash("activate", r, t)
                 /\ pc' = [pc EXCEPT ![t] = "crashed"]
            ELSE /\ pc' = [pc EXCEPT ![t] = "alock"]
                 /\ UNCHANGED failure
  /\ nCalls' = nCalls + 1
  /\ serial' = (serial /\ \A u \in Threads : pc[u] = "idle")
  /\ UNCHANGED <<onceToken, blocks, lock, delivered, called, acquired,
                 actDone, initRuns>>
  /\ UNCHANGED <<elfVars, dlVars, staticVars>>

\* The blocks are drained with no guard taken.
InitializeLookupLockOmitted(t) ==
  /\ Alive /\ pc[t] = "alock"
  /\ pc' = [pc EXCEPT ![t] = "alocked"]
  /\ UNCHANGED <<onceToken, blocks, lock, call, delivered, failure, called, acquired,
                 actCalls, actDone, initRuns, nCalls, serial>>
  /\ UNCHANGED <<elfVars, dlVars, staticVars>>

\* ScopedLock guard(*...Lock);
InitializeLookupLock(t) ==
  /\ Alive /\ pc[t] = "alock"
  /\ LET r == call[t].reg IN
     /\ MutexFree(r)
     /\ lock' = [lock EXCEPT ![r].owner = t]
  /\ pc' = [pc EXCEPT ![t] = "alocked"]
  /\ UNCHANGED <<onceToken, blocks, call, delivered, failure, called, acquired,
                 actCalls, actDone, initRuns, nCalls, serial>>
  /\ UNCHANGED <<elfVars, dlVars, staticVars>>

\* The call returns.
InitializeLookupReturn(t) ==
  /\ Unlock(t, call[t].reg)
  /\ actDone' = [actDone EXCEPT ![call[t].reg] = @ + 1]
  /\ pc' = [pc EXCEPT ![t] = "idle"]
  /\ call' = [call EXCEPT ![t] = NoCall]

\* Under the lock: if (...Blocks); with a null pointer the call returns.
InitializeLookupTest(t) ==
  /\ Alive /\ pc[t] = "alocked"
  /\ IF blocks[call[t].reg].alloc
       THEN /\ pc' = [pc EXCEPT ![t] = "drain"]
            /\ UNCHANGED <<lock, call, actDone>>
       ELSE InitializeLookupReturn(t)
  /\ UNCHANGED <<onceToken, blocks, delivered, failure, called, acquired,
                 actCalls, initRuns, nCalls, serial>>
  /\ UNCHANGED <<elfVars, dlVars, staticVars>>

\* for (auto block: *...Blocks) callback(block.data, block.size): the blocks
\* the callback is invoked with, in order.
RECURSIVE Reverse(_)
Reverse(vec) == IF vec = <<>> THEN <<>> ELSE Append(Reverse(Tail(vec)), Head(vec))
DrainBackwards(vec) == Reverse(vec)
Drain(vec) == vec

\* delete ...Blocks; ...Blocks = nullptr;
ClearedVector == [alloc |-> TRUE, vec |-> <<>>]
DeletedVector == NullVector

\* The drain loop without the delete and the reset of the pointer.
InitializeLookupDrainKeeping(t) ==
  /\ Alive /\ pc[t] = "drain"
  /\ LET r == call[t].reg IN
     delivered' = [delivered EXCEPT ![r] = @ \o Drain(blocks[r].vec)]
  /\ InitializeLookupReturn(t)
  /\ UNCHANGED <<onceToken, blocks, failure, called, acquired,
                 actCalls, initRuns, nCalls, serial>>
  /\ UNCHANGED <<elfVars, dlVars, staticVars>>

\* The drain loop, the delete and the reset of the pointer; the call returns.
InitializeLookupDrain(t) ==
  /\ Alive /\ pc[t] = "drain"
  /\ LET r == call[t].reg IN
     /\ delivered' = [delivered EXCEPT ![r] = @ \o Drain(blocks[r].vec)]
     /\ blocks' = [blocks EXCEPT ![r] = DeletedVector]
  /\ InitializeLookupReturn(t)
  /\ UNCHANGED <<onceToken, failure, called, acquired, actCalls, initRuns, nCalls, serial>>
  /\ UNCHANGED <<elfVars, dlVars, staticVars>>

ThreadStep(t) ==
  \/ AddImageBlock(t)
  \/ AddImageBlockOnce(t)
  \/ InitBlocks(t)
  \/ InitLock(t)
  \/ InitDone(t)
  \/ AddImageBlockLock(t)
  \/ AddImageBlockTest(t)
  \/ AddImageBlockForward(t)
  \/ AddImageBlockBuffer(t)
  \/ InitializeLookup(t)
  \/ InitializeLookupLock(t)
  \/ InitializeLookupTest(t)
  \/ InitializeLookupDrain(t)

RegNext == \E t \in Threads : ThreadStep(t)



\* ================================================== StaticBinaryELF.cpp
\* <elf.h>, LP64
EhdrSize == 64
PhdrSize == 56
ShdrSize == 64
SymSize == 24
ElfMagic == 2135247942
ELFCLASS64 == 2
ET_EXEC == 2
EV_CURRENT == 1
PT_LOAD == 1
PT_INTERP == 3
PT_NOTE == 4
SHT_PROGBITS == 1
SHT_SYMTAB == 2
SHT_STRTAB == 3
\* size_t arithmetic wraps; the model's words have SizeBits bits.
SizeBits == 12
Wrap(x) == x % (2 ^ SizeBits)

NullPtr == 0
NullShdr == [base |-> NullPtr, index |-> 0]
\* What a call left behind: the operation, its argument, what it returned and,
\* for _swift_dladdr, the Dl_info fields it wrote and its return value.
Answer(op, addr, result) ==
  [op |-> op, addr |-> addr, result |-> result,
   fname |-> "none", saddr |-> 0, sname |-> 0, ret |-> 0]
NoAnswer == Answer("none", 0, 0)

\* ------------------------------------------------------------ input files
\* End offset of each field of Elf64_Ehdr.
FieldEnd ==
  [magic |-> 4, class |-> 5, type |-> 18, version |-> 24, phoff |-> 40,
   shoff |-> 48, ehsize |-> 54, phentsize |-> 56, phnum |-> 58,
   shentsize |-> 60, shnum |-> 62, shstrndx |-> 64]

Phdr(t, va, sz) == [p_type |-> t, p_vaddr |-> va, p_memsz |-> sz]
Shdr(t, off, sz, ent) ==
  [sh_type |-> t, sh_offset |-> off, sh_size |-> sz, sh_entsize |-> ent]

\* Layout of the files with sections: one program header after the ELF
\* header, the section header table, and section contents behind the table.
ShOff == 128
SymOff == 512
StrOff == 560
FullSize == 576

\* The entries of the symbol table of the files that have one.
STT_OBJECT == 1
STT_FUNC == 2
Sym(t, value, size, name) ==
  [st_type |-> t, st_value |-> value, st_size |-> size, st_name |-> name]
Symbols == <<Sym(STT_OBJECT, 16, 8, 1), Sym(STT_FUNC, 24, 8, 5)>>
\* The offsets inside the string table that hold a NUL byte.
Nuls == {0, 4, 7, 15}
\* A string table whose last name is not terminated.
NulsShort == {0, 4}
\* Entries of the symbol tables tried in its place.
SymKinds ==
  { Sym(STT_FUNC, 8, 16, 1),      \* a function at [8, 24)
    Sym(STT_FUNC, 16, 8, 5),      \* a function at [16, 24) inside it
    Sym(STT_FUNC, 24, 0, 16),     \* a function of size 0, named past the string table
    Sym(STT_OBJECT, 8, 41, 5) }   \* an object over all addresses asked about
\* The addresses asked about.
Addrs == {8, 16, 24, 48}

PhdrKinds ==
  { Phdr(PT_LOAD, 16, 32),      \* a segment [16, 48]
    Phdr(PT_LOAD, 24, 24),      \* a segment [24, 48] inside it
    Phdr(PT_NOTE, 8, 40),       \* not a load segment
    Phdr(PT_INTERP, 0, 0) }
ShdrKinds ==
  { Shdr(SHT_SYMTAB, SymOff, 48, 24),     \* a symbol table of two entries
    Shdr(SHT_SYMTAB, SymOff, 50, 24),     \* size not a multiple of the entry size
    Shdr(SHT_SYMTAB, SymOff, 96, 24),     \* reaches past the end of the file
    Shdr(SHT_SYMTAB, SymOff, 48, 0),      \* entry size 0
    Shdr(SHT_STRTAB, StrOff, 16, 0),      \* a string table
    Shdr(SHT_STRTAB, 120, 8, 0),          \* a string table before the section headers
    Shdr(SHT_STRTAB, StrOff, 16, 3),      \* size not a multiple of the entry size
    Shdr(SHT_PROGBITS, 120, 8, 0) }

SeqsUpTo(S, n) == UNION {[1..k -> S] : k \in 0..n}

\* A file of `size` bytes holding a well-formed header for the given tables.
ElfFile(size, phoff, phdrs, shoff, shdrs, shstrndx) ==
  [size |-> size, magic |-> ElfMagic, class |-> ELFCLASS64, type |-> ET_EXEC,
   version |-> EV_CURRENT, ehsize |-> EhdrSize,
   phoff |-> phoff, phentsize |-> PhdrSize, phnum |-> Len(phdrs),
   shoff |-> shoff, shentsize |-> ShdrSize, shnum |-> Len(shdrs),
   shstrndx |-> shstrndx, phdrs |-> phdrs, shdrs |-> shdrs, syms |-> Symbols,
   nuls |-> Nuls]

PlainFile == ElfFile(EhdrSize, 0, <<>>, 0, <<>>, 0)

\* One header field off.
BadHeaderFiles ==
  { [PlainFile EXCEPT !.magic = 0],
    [PlainFile EXCEPT !.class = 1],
    [PlainFile EXCEPT !.type = 3],
    [PlainFile EXCEPT !.version = 0],
    [PlainFile EXCEPT !.ehsize = 52] }

\* Files shorter than the ELF header: empty, the magic alone, cut after e_ehsize.
ShortFiles ==
  { [PlainFile EXCEPT !.size = 0],
    [PlainFile EXCEPT !.size = 4],
    [PlainFile EXCEPT !.size = 54],
    [PlainFile EXCEPT !.size = 54, !.phoff = EhdrSize] }

\* Files with program headers and no sections, whole or cut after the header.
PhdrFiles ==
  { ElfFile(size, EhdrSize, phdrs, 0, <<>>, 0) :
      size \in {EhdrSize + PhdrSize * MaxPhdrs, EhdrSize},
      phdrs \in SeqsUpTo(PhdrKinds, MaxPhdrs) }

\* Files with sections, whole or cut at the section header table.
SectionFiles ==
  { ElfFile(size, EhdrSize, <<Phdr(PT_LOAD, 16, 32)>>, ShOff, shdrs, ndx) :
      size \in {FullSize, ShOff},
      shdrs \in SeqsUpTo(ShdrKinds, MaxSections),
      ndx \in {0, MaxSections} }

\* Files with a symbol table and a string table, over the symbol tables.
SymbolFiles ==
  { [ElfFile(FullSize, EhdrSize, <<Phdr(PT_LOAD, 16, 32)>>, ShOff,
             <<Shdr(SHT_SYMTAB, SymOff, 48, 24), Shdr(SHT_STRTAB, StrOff, 16, 0)>>,
             MaxSections) EXCEPT !.syms = syms, !.nuls = nuls] :
      syms \in [1..2 -> SymKinds], nuls \in {Nuls, NulsShort} }

\* Files whose offsets and sizes do not add up: a program header table that
\* ends at 2^SizeBits, one whose entries are said to have size 0, and a symbol
\* table that ends past 2^SizeBits.  The table is then read outside the
\* mapped bytes: the read faults, or finds some bytes, which phdrs and syms
\* stand for and which a later read of the same place finds again.
WrapFiles ==
  { ElfFile(EhdrSize, 2 ^ SizeBits - PhdrSize, phdrs, 0, <<>>, 0) :
      phdrs \in [1..1 -> PhdrKinds] }
  \cup { [ElfFile(EhdrSize, EhdrSize, phdrs, 0, <<>>, 0) EXCEPT !.phentsize = 0] :
           phdrs \in [1..1 -> PhdrKinds] }
  \cup { ElfFile(FullSize, EhdrSize, <<Phdr(PT_LOAD, 16, 32)>>, ShOff,
                 <<Shdr(SHT_SYMTAB, 2 ^ SizeBits - SymSize, 2 * SymSize, SymSize)>>,
                 MaxSections) }

Files ==
  BadHeaderFiles \cup ShortFiles \cup PhdrFiles \cup SectionFiles \cup SymbolFiles
    \cup WrapFiles

\* mmap(..., sizeof(Elf_Ehdr), ...) of a file: a header field read through the
\* mapping is the file's when the file holds it, zero past the end of the file.
Ehdr(f) == IF FieldEnd[f] <= file.size THEN file[f] ELSE 0

\* headers[idx] of the program header table (idx counts from 0).
ReadPhdr(idx) == file.phdrs[idx + 1]
\* headers[idx] of the section header table (idx counts from 0).
ReadShdr(idx) == file.shdrs[idx + 1]

\* The program header table as the loops read it, headers[0..e_phnum-1] of
\* type Elf_Phdr at mapping + e_phoff, lies inside the mapped bytes.
PhdrTableInside ==
  Ehdr("phnum") = 0 \/ Ehdr("phoff") + Ehdr("phnum") * PhdrSize <= mapLength
\* The section header table as findSection reads it lies inside the mapped bytes.
ShdrTableInside ==
  Ehdr("shnum") = 0 \/ Ehdr("shoff") + Ehdr("shnum") * ShdrSize <= mapLength
\* The entries findSymbol reads through a symbol table header, symbols[0..
\* entries-1] of type Elf_Sym at mapping + sh_offset, lie inside the mapped bytes.
SymbolsInside(section) ==
  \/ section.sh_entsize = 0
  \/ section.sh_size \div section.sh_entsize = 0
  \/ section.sh_offset + (section.sh_size \div section.sh_entsize) * SymSize <= mapLength

\* ------------------------------------------------------------------ state
ElfInit ==
  /\ file \in Files
  /\ elfPc = "new"
  /\ fileSize = 0
  /\ mapLength = 0
  /\ mapping = NullPtr
  /\ elfHeader = NullPtr
  /\ symbolTable = NullShdr
  /\ stringTable = NullShdr
  /\ parseError = "none"
  /\ fault = "none"
  /\ answer = NoAnswer

\* No parser has been constructed.
ElfIdle ==
  /\ file = PlainFile
  /\ elfPc = "new"
  /\ fileSize = 0
  /\ mapLength = 0
  /\ mapping = NullPtr
  /\ elfHeader = NullPtr
  /\ symbolTable = NullShdr
  /\ stringTable = NullShdr
  /\ parseError = "none"
  /\ fault = "none"
  /\ answer = NoAnswer

\* What mremap(mapping, mapLength, size, MREMAP_MAYMOVE) may do.
MremapOutcomes == {"same", "moved", "failed"}

\* The members expandMapping may change.
Mapped == [mapping |-> mapping, mapLength |-> mapLength, elfHeader |-> elfHeader]

\* expandMapping without the test against the file's size.
expandMappingUnchecked(m, size, outcome) ==
  IF m.mapping = NullPtr \/ (size > m.mapLength /\ outcome = "failed")
    THEN [ok |-> FALSE, m |-> m]
    ELSE IF size > m.mapLength
      THEN LET base == IF outcome = "moved" THEN m.mapping + 1 ELSE m.mapping IN
           [ok |-> TRUE,
            m |-> [mapping |-> base, mapLength |-> size, elfHeader |-> base]]
      ELSE [ok |-> TRUE, m |-> m]

\* expandMapping mapping as much of the file as there is before giving up.
expandMappingTruncating(m, size, outcome) ==
  IF m.mapping = NullPtr
    THEN [ok |-> FALSE, m |-> m]
    ELSE IF size > fileSize
      THEN [ok |-> FALSE,
            m |-> [m EXCEPT !.mapLength = IF fileSize > @ THEN fileSize ELSE @]]
      ELSE IF size > m.mapLength
        THEN IF outcome = "failed"
               THEN [ok |-> FALSE, m |-> m]
               ELSE LET base == IF outcome = "moved" THEN m.mapping + 1 ELSE m.mapping IN
                    [ok |-> TRUE,
                     m |-> [mapping |-> base, mapLength |-> size, elfHeader |-> base]]
        ELSE [ok |-> TRUE, m |-> m]

\* bool expandMapping(size_t size), on the members m, with mremap's outcome.
expandMapping(m, size, outcome) ==
  IF m.mapping = NullPtr \/ size > fileSize
    THEN [ok |-> FALSE, m |-> m]
    ELSE IF size > m.mapLength
      THEN IF outcome = "failed"
             THEN [ok |-> FALSE, m |-> m]
             ELSE LET base == IF outcome = "moved" THEN m.mapping + 1 ELSE m.mapping IN
                  [ok |-> TRUE,
                   m |-> [mapping |-> base, mapLength |-> size, elfHeader |-> base]]
      ELSE [ok |-> TRUE, m |-> m]

\* The section headers findSection looks at: not e_shstrndx, of the type.
Candidates(sectionType) ==
  {idx \in 0..(Ehdr("shnum") - 1) :
     idx # Ehdr("shstrndx") /\ ReadShdr(idx).sh_type = sectionType}

\* sh_entsize > 0 && sh_size % sh_entsize
Malformed(h) == h.sh_entsize > 0 /\ h.sh_size % h.sh_entsize # 0

Min(S) == CHOOSE x \in S : \A y \in S : x <= y

\* findSection passing over malformed sections with `continue`.
SettledSkippingMalformed(sectionType) ==
  LET good == {idx \in Candidates(sectionType) : ~Malformed(ReadShdr(idx))} IN
  IF good = {} THEN Min(Candidates(sectionType)) ELSE Min(good)

\* The section header findSection settles on: the first of the type.
Settled(sectionType) == Min(Candidates(sectionType))

\* const Elf_Shdr *findSection(Elf_Word sectionType), on the members m: the
\* pointer returned and the members after the call.  `headers` is computed
\* from the mapping as it is on entry, and the pointer returned is
\* &headers[idx].
findSection(m, sectionType, outcome) ==
  IF Candidates(sectionType) = {}
    THEN [header |-> NullShdr, m |-> m]
    ELSE LET idx == Settled(sectionType)
             header == ReadShdr(idx)
             e == expandMapping(m, Wrap(header.sh_offset + header.sh_size), outcome)
         IN  IF Malformed(header) \/ ~e.ok
               THEN [header |-> NullShdr, m |-> m]
               ELSE [header |-> [base |-> m.mapping, index |-> idx], m |-> e.m]

SetMapped(m) ==
  /\ mapping' = m.mapping
  /\ mapLength' = m.mapLength
  /\ elfHeader' = m.elfHeader

\* ------------------------------------------------------------ construction
\* StaticBinaryELF(filename): mmapExecutable up to the call of readElfHeader.
\* open, fstat or mmap may fail; the members keep their initial values then.
mmapExecutable ==
  /\ elfPc = "new"
  /\ \/ \E why \in {"open", "fstat", "mmap"} :
          /\ parseError' = why
          /\ elfPc' = "constructed"
          /\ UNCHANGED <<fileSize, mapping, mapLength>>
     \/ /\ fileSize' = file.size
        /\ mapping' = 1
        /\ mapLength' = EhdrSize
        /\ elfPc' = "readElfHeader"
        /\ UNCHANGED parseError
  /\ UNCHANGED <<file, elfHeader, symbolTable, stringTable, fault, answer>>
  /\ UNCHANGED <<regVars, dlVars, staticVars>>

\* The first test of readElfHeader that fails, "none" if the header passes.
HeaderError ==
  IF Ehdr("magic") # ElfMagic THEN "magic"
  ELSE IF Ehdr("class") # ELFCLASS64 THEN "class"
  ELSE IF Ehdr("type") # ET_EXEC THEN "type"
  ELSE IF Ehdr("version") # EV_CURRENT THEN "version"
  ELSE IF Ehdr("ehsize") # EhdrSize THEN "ehsize"
  ELSE "none"

\* readElfHeader: the header is validated and the program header block mapped.
\* Reading the header of an empty file faults: its page lies past the end of
\* the file.
readElfHeader ==
  /\ elfPc = "readElfHeader" /\ fault = "none"
  /\ IF file.size = 0
       THEN /\ fault' = "SIGBUS"
            /\ elfHeader' = mapping
            /\ UNCHANGED <<elfPc, parseError, mapping, mapLength>>
       ELSE /\ UNCHANGED fault
            /\ IF HeaderError # "none"
                 THEN /\ elfHeader' = mapping
                      /\ parseError' = HeaderError
                      /\ elfPc' = "parseFailed"
                      /\ UNCHANGED <<mapping, mapLength>>
                 ELSE \E outcome \in MremapOutcomes :
                        LET programHeaderSize == Ehdr("phentsize") * Ehdr("phnum")
                            e == expandMapping([Mapped EXCEPT !.elfHeader = mapping],
                                               Wrap(Ehdr("phoff") + programHeaderSize),
                                               outcome)
                        IN  /\ SetMapped(e.m)
                            /\ parseError' = IF e.ok THEN "none" ELSE "phdrGrow"
                            /\ elfPc' = IF e.ok THEN "programHeaders" ELSE "parseFailed"
  /\ UNCHANGED <<file, fileSize, symbolTable, stringTable, answer>>
  /\ UNCHANGED <<regVars, dlVars, staticVars>>

\* readElfHeader: a PT_INTERP program header makes the binary dynamic; else
\* the section headers are mapped.
readProgramHeaders ==
  /\ elfPc = "programHeaders" /\ fault = "none"
  /\ \/ /\ ~PhdrTableInside
        /\ fault' = "SIGSEGV"
        /\ UNCHANGED <<elfPc, parseError, mapping, mapLength, elfHeader>>
     \/ /\ UNCHANGED fault
        /\ IF \E idx \in 0..(Ehdr("phnum") - 1) : ReadPhdr(idx).p_type = PT_INTERP
             THEN /\ parseError' = "interp"
                  /\ elfPc' = "parseFailed"
                  /\ UNCHANGED <<mapping, mapLength, elfHeader>>
             ELSE \E outcome \in MremapOutcomes :
                    LET sectionHeaderSize == Ehdr("shentsize") * Ehdr("shnum")
                        e == expandMapping(Mapped, Wrap(Ehdr("shoff") + sectionHeaderSize),
                                           outcome)
                    IN  /\ SetMapped(e.m)
                        /\ parseError' = IF e.ok THEN "none" ELSE "shdrGrow"
                        /\ elfPc' = IF e.ok THEN "symbolTable" ELSE "parseFailed"
  /\ UNCHANGED <<file, fileSize, symbolTable, stringTable, answer>>
  /\ UNCHANGED <<regVars, dlVars, staticVars>>

\* symbolTable = findSection(SHT_SYMTAB);
findSymbolTable ==
  /\ elfPc = "symbolTable"
  /\ \E outcome \in MremapOutcomes :
       LET f == findSection(Mapped, SHT_SYMTAB, outcome) IN
       /\ symbolTable' = f.header
       /\ SetMapped(f.m)
  /\ elfPc' = "stringTable"
  /\ UNCHANGED <<file, fileSize, stringTable, parseError, fault, answer>>
  /\ UNCHANGED <<regVars, dlVars, staticVars>>

\* stringTable = findSection(SHT_STRTAB); return true;
findStringTable ==
  /\ elfPc = "stringTable"
  /\ \E outcome \in MremapOutcomes :
       LET f == findSection(Mapped, SHT_STRTAB, outcome) IN
       /\ stringTable' = f.header
       /\ SetMapped(f.m)
  /\ elfPc' = "constructed"
  /\ UNCHANGED <<file, fileSize, symbolTable, parseError, fault, answer>>
  /\ UNCHANGED <<regVars, dlVars, staticVars>>

\* The members after a failed readElfHeader.
Disabled ==
  [mapping |-> NullPtr, mapLength |-> 0, elfHeader |-> NullPtr,
   symbolTable |-> NullShdr, stringTable |-> NullShdr]

\* mmapExecutable after readElfHeader returned false: munmap and reset.
parseFailed ==
  /\ elfPc = "parseFailed"
  /\ mapping' = Disabled.mapping
  /\ mapLength' = Disabled.mapLength
  /\ elfHeader' = Disabled.elfHeader
  /\ symbolTable' = Disabled.symbolTable
  /\ stringTable' = Disabled.stringTable
  /\ elfPc' = "constructed"
  /\ UNCHANGED <<file, fileSize, parseError, fault, answer>>
  /\ UNCHANGED <<regVars, dlVars, staticVars>>

\* ---------------------------------------------------------------- queries
\* getSectionLoadAddress with the end of the segment excluded.
getSectionLoadAddressHalfOpen(addr) ==
  IF elfHeader # NullPtr
    THEN LET hits == {idx \in 0..(Ehdr("phnum") - 1) :
                        LET header == ReadPhdr(idx) IN
                        /\ header.p_type = PT_LOAD
                        /\ addr >= header.p_vaddr
                        /\ addr < Wrap(header.p_vaddr + header.p_memsz)}
         IN  IF hits = {} THEN NullPtr ELSE ReadPhdr(Min(hits)).p_vaddr
    ELSE NullPtr

\* void *getSectionLoadAddress(const void *addr): the p_vaddr of the first
\* PT_LOAD program header whose range holds addr, nullptr (0) if none.
getSectionLoadAddress(addr) ==
  IF elfHeader # NullPtr
    THEN LET hits == {idx \in 0..(Ehdr("phnum") - 1) :
                        LET header == ReadPhdr(idx) IN
                        /\ header.p_type = PT_LOAD
                        /\ addr >= header.p_vaddr
                        /\ addr <= Wrap(header.p_vaddr + header.p_memsz)}
         IN  IF hits = {} THEN NullPtr ELSE ReadPhdr(Min(hits)).p_vaddr
    ELSE NullPtr

\* const Elf_Sym *findSymbol(const void *addr): what the call may do, as
\* [result, fault]; result is the number of the symbol found (from 1), 0 for
\* nullptr.  A symbolTable pointer into a region that has been remapped
\* elsewhere is dangling, and a zero sh_entsize is divided by: the call may
\* then fault or return anything.  Entries outside the mapped bytes are read
\* as what is found there, or fault.
findSymbol(addr) ==
  IF symbolTable = NullShdr
    THEN {[result |-> 0, fault |-> "none"]}
    ELSE IF symbolTable.base # mapping
      THEN {[result |-> r, fault |-> "none"] : r \in 0..Len(file.syms)}
             \cup {[result |-> 0, fault |-> "SIGSEGV"]}
      ELSE LET section == ReadShdr(symbolTable.index) IN
           IF section.sh_entsize = 0
             THEN {[result |-> 0, fault |-> "none"], [result |-> 0, fault |-> "SIGFPE"]}
             ELSE (IF SymbolsInside(section) THEN {} ELSE {[result |-> 0, fault |-> "SIGSEGV"]})
                  \cup
                  LET entries == section.sh_size \div section.sh_entsize
                      hits == {idx \in 1..entries :
                                 /\ file.syms[idx].st_type = STT_FUNC
                                 /\ addr >= file.syms[idx].st_value
                                 /\ addr < Wrap(file.syms[idx].st_value + file.syms[idx].st_size)}
                  IN  {[result |-> IF hits = {} THEN 0 ELSE Min(hits), fault |-> "none"]}

\* const char *symbolName(const Elf_Sym *symbol): what the call may do, as
\* [result, fault]; result is the offset in the mapping of the name returned
\* (sh_offset + st_name), 0 for nullptr.  A stringTable pointer into a region
\* that has been remapped elsewhere is dangling.
symbolName(symbol) ==
  IF stringTable = NullShdr
    THEN {[result |-> 0, fault |-> "none"]}
    ELSE IF stringTable.base # mapping
      THEN {[result |-> r, fault |-> "none"] : r \in {0, StrOff + symbol.st_name}}
             \cup {[result |-> 0, fault |-> "SIGSEGV"]}
      ELSE LET section == ReadShdr(stringTable.index) IN
           IF symbol.st_name >= section.sh_size
             THEN {[result |-> 0, fault |-> "none"]}
             ELSE {[result |-> section.sh_offset + symbol.st_name, fault |-> "none"]}

\* A caller asks for the load address of the segment holding an address.
getSectionLoadAddressCall ==
  /\ elfPc = "constructed" /\ fault = "none"
  /\ \E addr \in Addrs :
       answer' = Answer("getSectionLoadAddress", addr, getSectionLoadAddress(addr))
  /\ UNCHANGED <<file, elfPc, fileSize, mapLength, mapping, elfHeader,
                 symbolTable, stringTable, parseError, fault>>
  /\ UNCHANGED <<regVars, dlVars, staticVars>>

\* A caller asks for the function symbol holding an address.
findSymbolCall ==
  /\ elfPc = "constructed" /\ fault = "none"
  /\ \E addr \in Addrs : \E o \in findSymbol(addr) :
       /\ fault' = o.fault
       /\ answer' = Answer("findSymbol", addr, o.result)
  /\ UNCHANGED <<file, elfPc, fileSize, mapLength, mapping, elfHeader,
                 symbolTable, stringTable, parseError>>
  /\ UNCHANGED <<regVars, dlVars, staticVars>>

\* A caller asks for the name of an entry of the symbol table.
symbolNameCall ==
  /\ elfPc = "constructed" /\ fault = "none"
  /\ \E i \in 1..Len(file.syms) : \E o \in symbolName(file.syms[i]) :
       /\ fault' = o.fault
       /\ answer' = Answer("symbolName", i, o.result)
  /\ UNCHANGED <<file, elfPc, fileSize, mapLength, mapping, elfHeader,
                 symbolTable, stringTable, parseError>>
  /\ UNCHANGED <<regVars, dlVars, staticVars>>

\* int _swift_dladdr(const void *addr, Dl_info *info) on the constructed
\* parser: what the call may do, as the answer left behind and the fault.
\* dli_fname is the path name, dli_fbase the load address, dli_saddr and
\* dli_sname the value and name of the symbol found or null; it returns 1.
Dladdr(addr) ==
  LET info(saddr, sname, ret) ==
        [Answer("dladdr", addr, getSectionLoadAddress(addr)) EXCEPT
           !.fname = IF ret = 1 THEN "path" ELSE "none",
           !.saddr = saddr, !.sname = sname, !.ret = ret]
      found(o) ==
        IF o.fault # "none"
          THEN {[answer |-> info(0, 0, 0), fault |-> o.fault]}
          ELSE IF o.result = 0
            THEN {[answer |-> info(0, 0, 1), fault |-> "none"]}
            ELSE LET symbol == file.syms[o.result] IN
                 {IF n.fault # "none"
                    THEN [answer |-> info(0, 0, 0), fault |-> n.fault]
                    ELSE [answer |-> info(symbol.st_value, n.result, 1), fault |-> "none"] :
                  n \in symbolName(symbol)}
  IN  UNION {found(o) : o \in findSymbol(addr)}

\* A caller resolves an address.
swift_dladdr ==
  /\ elfPc = "constructed" /\ fault = "none"
  /\ \E addr \in Addrs : \E d \in Dladdr(addr) :
       /\ fault' = d.fault
       /\ answer' = d.answer
  /\ UNCHANGED <<file, elfPc, fileSize, mapLength, mapping, elfHeader,
                 symbolTable, stringTable, parseError>>
  /\ UNCHANGED <<regVars, dlVars, staticVars>>

ElfNext ==
  \/ mmapExecutable
  \/ readElfHeader
  \/ readProgramHeaders
  \/ findSymbolTable
  \/ findStringTable
  \/ parseFailed
  \/ getSectionLoadAddressCall
  \/ findSymbolCall
  \/ symbolNameCall
  \/ swift_dladdr

\* ------------------------------------------------ ImageInspectionStatic.cpp
\* static SectionInfo protocolConformances, typeMetadata: zero-initialized.
StaticInit ==
  /\ staticBlocks = [r \in Registries |-> NoBlock]
  /\ staticDelivered = [r \in Registries |-> <<>>]
  /\ staticCalls = 0

\* addImageProtocolConformanceBlock / addImageTypeMetadataRecordBlock (static):
\* the block is stored over the one stored before.
StaticAddImageBlock ==
  /\ staticCalls < MaxStaticCalls
  /\ \E r \in Registries, s \in BlockSizes :
       staticBlocks' = [staticBlocks EXCEPT ![r] = SectionInfo(staticCalls + 1, s)]
  /\ staticCalls' = staticCalls + 1
  /\ UNCHANGED staticDelivered
  /\ UNCHANGED <<regVars, elfVars, dlVars>>

\* loadSectionData: the image's two sections are contributed, each with the
\* size found in front of its data (0 for a section the image does not have).
loadSectionData ==
  /\ staticCalls < MaxStaticCalls
  /\ \E sc \in BlockSizes, st \in BlockSizes :
       staticBlocks' = [staticBlocks EXCEPT
                          !["conformance"] = SectionInfo(staticCalls + 1, sc),
                          !["typeMetadata"] = SectionInfo(staticCalls + 1, st)]
  /\ staticCalls' = staticCalls + 1
  /\ UNCHANGED staticDelivered
  /\ UNCHANGED <<regVars, elfVars, dlVars>>

\* initializeProtocolConformanceLookup / initializeTypeMetadataRecordLookup
\* (static): the callback is invoked with the stored block.
StaticInitializeLookup ==
  /\ staticCalls < MaxStaticCalls
  /\ \E r \in Registries :
       staticDelivered' = [staticDelivered EXCEPT ![r] = Append(@, staticBlocks[r])]
  /\ staticCalls' = staticCalls + 1
  /\ UNCHANGED staticBlocks
  /\ UNCHANGED <<regVars, elfVars, dlVars>>

StaticNext ==
  \/ StaticAddImageBlock
  \/ loadSectionData
  \/ StaticInitializeLookup

\* ------------------------------------------------------------ _swift_dladdr
\* No thread has called _swift_dladdr.
DlInit ==
  /\ dlPc = [t \in Threads |-> "idle"]
  /\ dlToken = "uninit"
  /\ binary = NullPtr
  /\ instances = 0
  /\ constructors = {}
  /\ dlCalls = 0

\* The executables _swift_dladdr is run on: one that is refused, one without
\* sections, one with a symbol table and a string table.
DladdrFiles ==
  { [PlainFile EXCEPT !.magic = 0],
    ElfFile(EhdrSize + PhdrSize * MaxPhdrs, EhdrSize, <<Phdr(PT_LOAD, 16, 32)>>,
            0, <<>>, 0),
    [ElfFile(FullSize, EhdrSize, <<Phdr(PT_LOAD, 16, 32)>>, ShOff,
             <<Shdr(SHT_SYMTAB, SymOff, 48, 24), Shdr(SHT_STRTAB, StrOff, 16, 0)>>,
             MaxSections)
       EXCEPT !.syms = <<Sym(STT_FUNC, 8, 16, 1), Sym(STT_FUNC, 16, 8, 5)>>] }

\* A thread calls _swift_dladdr(addr, info).
DladdrCall(t) ==
  /\ fault = "none" /\ dlPc[t] = "idle" /\ dlCalls < MaxDladdr
  /\ dlPc' = [dlPc EXCEPT ![t] = "once"]
  /\ dlCalls' = dlCalls + 1
  /\ UNCHANGED <<dlToken, binary, instances, constructors>>
  /\ UNCHANGED <<regVars, elfVars, staticVars>>

\* The initializer is entered: new StaticBinaryELF("/proc/self/exe") begins.
EnterConstructor(t) ==
  /\ dlPc' = [dlPc EXCEPT ![t] = "constructing"]
  /\ instances' = instances + 1
  /\ constructors' = constructors \cup {t}

\* A hand-written first-use test in place of pthread_once:
\* if (binary == nullptr) binary = new StaticBinaryELF(...).
DladdrOnceUnguarded(t) ==
  /\ fault = "none" /\ dlPc[t] = "once"
  /\ IF binary = NullPtr
       THEN EnterConstructor(t)
       ELSE /\ dlPc' = [dlPc EXCEPT ![t] = "resolve"]
            /\ UNCHANGED <<instances, constructors>>
  /\ UNCHANGED <<dlToken, binary, dlCalls>>
  /\ UNCHANGED <<regVars, elfVars, staticVars>>

\* pthread_once(&onceToken, initializer): the first caller runs the
\* initializer, callers arriving while it runs wait, later callers pass.
DladdrOnce(t) ==
  /\ fault = "none" /\ dlPc[t] = "once"
  /\ \/ /\ dlToken = "uninit"
        /\ dlToken' = "running"
        /\ EnterConstructor(t)
     \/ /\ dlToken = "done"
        /\ dlPc' = [dlPc EXCEPT ![t] = "resolve"]
        /\ UNCHANGED <<dlToken, instances, constructors>>
  /\ UNCHANGED <<binary, dlCalls>>
  /\ UNCHANGED <<regVars, elfVars, staticVars>>

\* The constructor runs in the thread that entered the initializer.
DladdrConstruct(t) ==
  /\ dlPc[t] = "constructing"
  /\ \/ mmapExecutable
     \/ readElfHeader
     \/ readProgramHeaders
     \/ findSymbolTable
     \/ findStringTable
     \/ parseFailed

\* The constructor has returned: binary is assigned, pthread_once returns.
DladdrOnceDone(t) ==
  /\ fault = "none" /\ dlPc[t] = "constructing" /\ elfPc = "constructed"
  /\ binary' = 1
  /\ dlToken' = IF dlToken = "running" THEN "done" ELSE dlToken
  /\ dlPc' = [dlPc EXCEPT ![t] = "resolve"]
  /\ UNCHANGED <<instances, constructors, dlCalls>>
  /\ UNCHANGED <<regVars, elfVars, staticVars>>

\* The rest of _swift_dladdr: getPathName, getSectionLoadAddress, findSymbol,
\* symbolName through binary; return 1.
DladdrResolve(t) ==
  /\ fault = "none" /\ dlPc[t] = "resolve"
  /\ IF binary = NullPtr
       THEN fault' = "SIGSEGV" /\ UNCHANGED answer
       ELSE \E addr \in Addrs : \E d \in Dladdr(addr) :
              /\ fault' = d.fault
              /\ answer' = d.answer
  /\ dlPc' = [dlPc EXCEPT ![t] = "idle"]
  /\ UNCHANGED <<dlToken, binary, instances, constructors, dlCalls>>
  /\ UNCHANGED <<file, elfPc, fileSize, mapLength, mapping, elfHeader,
                 symbolTable, stringTable, parseError>>
  /\ UNCHANGED <<regVars, staticVars>>

DladdrStep(t) ==
  \/ DladdrCall(t)
  \/ DladdrOnce(t)
  \/ DladdrConstruct(t)
  \/ DladdrOnceDone(t)
  \/ DladdrResolve(t)

DladdrNext == \E t \in Threads : DladdrStep(t)

\* Threads resolving addresses, on each executable.
InitDladdr ==
  /\ RegInit /\ ElfInit /\ DlInit /\ StaticInit
  /\ file \in DladdrFiles
SpecDladdr == InitDladdr /\ [][DladdrNext]_vars

\* The static registries, with no parser constructed.
InitStatic == RegInit /\ ElfIdle /\ DlInit /\ StaticInit
SpecStatic == InitStatic /\ [][StaticNext]_vars

\* The registries, with no parser constructed.
InitRegistry == RegInit /\ ElfIdle /\ DlInit /\ StaticInit
SpecRegistry == InitRegistry /\ [][RegNext]_vars

\* The parser on every input file, with the registries unused.
InitELF == RegInit /\ ElfInit /\ DlInit /\ StaticInit
SpecELF == InitELF /\ [][ElfNext]_vars

\* ------------------------------------------------------- registry: notions
AllIdle == \A t \in Threads : pc[t] = "idle"
Range(seq) == {seq[i] : i \in DOMAIN seq}
Count(seq, b) == Cardinality({i \in DOMAIN seq : seq[i] = b})
NonEmpty(seq) == SelectSeq(seq, LAMBDA b : b.size > 0)
\* The blocks of the contribute calls on r that have returned.
Returned(r) ==
  {b \in Range(called[r]) : \A t \in Threads : call[t].block # b}
\* A contribute call of thread t on r is past SWIFT_ONCE_F.
PastOnce(t, r) ==
  call[t].reg = r /\ pc[t] \in {"lock", "locked", "forward", "buffer"}

\* C1: when the calls are made one after the other, then between calls: before
\* the registry is activated the callback has not been invoked and the buffer
\* holds the contributed blocks of size > 0 in call order; once activate has
\* returned the callback has been invoked with exactly the contributed blocks
\* of size > 0, each once, in call order.
C1_DrainInOrder ==
  \A r \in Registries :
    (serial /\ AllIdle) =>
      IF actDone[r] = 0
        THEN /\ delivered[r] = <<>>
             /\ blocks[r].vec = NonEmpty(called[r])
        ELSE delivered[r] = NonEmpty(called[r])

\* Two blocks of size > 0 were contributed to a registry, then it was
\* activated: the third call of the run is the activation.
C1_Witness ==
  /\ serial /\ AllIdle /\ nCalls = 3
  /\ actDone["conformance"] = 1
  /\ called["conformance"] = <<SectionInfo(1, 8), SectionInfo(2, 8)>>
  /\ delivered["conformance"] = called["conformance"]

\* C2: no block of size 0 is ever passed to the callback or stored in the
\* buffer, whatever the interleaving.
C2_NoEmptyBlock ==
  \A r \in Registries :
    /\ \A i \in DOMAIN delivered[r] : delivered[r][i].size > 0
    /\ \A i \in DOMAIN blocks[r].vec : blocks[r].vec[i].size > 0

\* A block of size 0 was contributed while the registry was being activated,
\* and its call has returned.
C2_Witness ==
  \E r \in Registries :
    /\ \E b \in Returned(r) : b.size = 0 /\ b.data = 3
    /\ \E t \in Threads : call[t].reg = r /\ pc[t] = "drain"

\* C3: once activate has returned the vector pointer is null (and stays so),
\* no contribute call is about to buffer, and every contribute call with
\* size > 0 that has returned and every one past its callback step has had
\* its block passed to the callback.
C3_ActiveForever ==
  \A r \in Registries :
    actDone[r] >= 1 =>
      /\ ~blocks[r].alloc /\ blocks[r].vec = <<>>
      /\ \A t \in Threads : ~(call[t].reg = r /\ pc[t] = "buffer")
      /\ \A b \in Returned(r) : b.size > 0 => Count(delivered[r], b) = 1

\* Contribute, activate, contribute, one after the other: the last block was
\* forwarded by its own call.
C3_Witness ==
  /\ serial /\ AllIdle
  /\ actDone["typeMetadata"] = 1
  /\ delivered["typeMetadata"] = <<SectionInfo(1, 8), SectionInfo(3, 8)>>

\* C4: in every interleaving, each block of size > 0 is in the buffer or in
\* the callback's input at most once, exactly once when its contribute call
\* has returned, and in the callback's input exactly once when moreover
\* activate has returned; the callback and the buffer see nothing that was
\* not contributed to that registry.
C4_ExactlyOnce ==
  \A r \in Registries :
    /\ Range(delivered[r]) \cup Range(blocks[r].vec) \subseteq Range(called[r])
    /\ \A b \in Range(called[r]) :
         LET n == Count(delivered[r], b) + Count(blocks[r].vec, b) IN
         /\ n <= 1
         /\ (b \in Returned(r) /\ b.size > 0) => n = 1
         /\ (b \in Returned(r) /\ b.size > 0 /\ actDone[r] >= 1)
              => Count(delivered[r], b) = 1

\* A contribute call waits for the lock while activate, holding it, is about
\* to drain a non-empty buffer.
C4_Witness ==
  \E r \in Registries, t, u \in Threads :
    /\ call[t].reg = r /\ pc[t] = "drain" /\ blocks[r].vec # <<>>
    /\ call[u].reg = r /\ pc[u] = "lock"

\* C5: the first-use initializer of a registry runs at most once, a thread is
\* past SWIFT_ONCE_F only when the initializer has finished (vector and mutex
\* allocated), and every block of size > 0 whose call has returned is buffered
\* or forwarded exactly once.
C5_InitOnce ==
  \A r \in Registries :
    /\ initRuns[r] <= 1
    /\ \A t \in Threads :
         PastOnce(t, r) => onceToken[r] = "done" /\ lock[r].alloc /\ initRuns[r] = 1
    /\ \A b \in Returned(r) :
         b.size > 0 => Count(delivered[r], b) + Count(blocks[r].vec, b) = 1

\* Two threads are in their first contribute call on the same registry: one
\* runs the initializer, the other waits at SWIFT_ONCE_F.
C5_Witness ==
  \E r \in Registries, t, u \in Threads :
    /\ call[t].reg = r /\ pc[t] = "initLock"
    /\ call[u].reg = r /\ pc[u] = "once"
    /\ nCalls = 2

\* C6 as claimed: no call ends the process.
C6_NoCallFails == failure = NoFailure

\* C6, amended: contribute never fails and no call in progress is stuck for
\* good; the only call that fails is activate on a registry whose lock has not
\* been allocated yet (no contribute call has run the initializer that far).
C6_OnlyEarlyActivateFails ==
  /\ failure # NoFailure =>
       failure.op = "activate" /\ ~lock[failure.reg].alloc
  /\ (Alive /\ ~AllIdle) =>
       \E t \in Threads : pc[t] # "idle" /\ ENABLED ThreadStep(t)

\* Activate was called on a registry in use and returned, as did the
\* contribute calls.
C6_Witness ==
  \E r \in Registries :
    /\ Alive /\ AllIdle /\ nCalls = 3
    /\ actDone[r] >= 1 /\ Len(called[r]) >= 1


\* --------------------------------------------------------- parser: notions
IsDisabled ==
  /\ mapping = NullPtr /\ elfHeader = NullPtr
  /\ symbolTable = NullShdr /\ stringTable = NullShdr
\* Every query answers "none".
AnswersNone ==
  /\ \A addr \in Addrs :
       /\ getSectionLoadAddress(addr) = NullPtr
       /\ findSymbol(addr) = {[result |-> 0, fault |-> "none"]}
  /\ answer.result = NullPtr
\* readElfHeader has returned true.
Parsed == elfPc = "constructed" /\ parseError = "none"
Selected(sectionType) ==
  IF sectionType = SHT_SYMTAB THEN symbolTable ELSE stringTable
\* The first section findSection looks at for the type is malformed.
FirstIsMalformed(sectionType) ==
  /\ Candidates(sectionType) # {}
  /\ Malformed(ReadShdr(Min(Candidates(sectionType))))
\* Section idx lies inside what is mapped once the section headers are.
InsideHeaders(idx) ==
  ReadShdr(idx).sh_offset + ReadShdr(idx).sh_size
    <= Ehdr("shoff") + Ehdr("shentsize") * Ehdr("shnum")
\* The well-formed sections of the type behind the first, malformed, one that
\* need no growing of the mapping.
LaterWellFormed(sectionType) ==
  {idx \in Candidates(sectionType) :
     /\ idx > Min(Candidates(sectionType))
     /\ ~Malformed(ReadShdr(idx))
     /\ InsideHeaders(idx)}

\* C7: a constructor that gave up, or was given a file shorter than the ELF
\* header, has not faulted and leaves the parser disabled (mapping, elfHeader,
\* symbolTable and stringTable all null), and from then on
\* getSectionLoadAddress and findSymbol return none for every address.
C7_ShortOrRejectedIsDisabled ==
  /\ file.size < EhdrSize => fault = "none"
  /\ (elfPc = "constructed" /\ (parseError # "none" \/ file.size < EhdrSize))
       => IsDisabled /\ AnswersNone

\* A file shorter than the ELF header was parsed and the parser is enabled.
C7_Witness ==
  /\ Parsed /\ file.size < EhdrSize
  /\ elfHeader # NullPtr /\ mapping # NullPtr
  /\ answer.op = "getSectionLoadAddress"

\* The part of C7 that the code keeps: every way construction gives up (open,
\* fstat or mmap failing, wrong magic, class, type, version or header size, a
\* PT_INTERP program header, a failed grow to the program or section header
\* table) leaves the parser disabled, no query faults, and every query
\* answers none from then on; a file too short to hold e_ehsize is refused.
RejectedIsDisabled ==
  /\ (elfPc = "constructed" /\ parseError # "none")
       => IsDisabled /\ mapLength = 0 /\ AnswersNone /\ fault = "none"
  /\ (elfPc = "constructed" /\ 0 < file.size /\ file.size < FieldEnd.ehsize)
       => parseError # "none"
  /\ elfPc = "parseFailed" => parseError # "none"

C9_PointersCurrent ==
  /\ elfHeader # NullPtr => elfHeader = mapping
  /\ symbolTable # NullShdr => symbolTable.base = mapping
  /\ stringTable # NullShdr => stringTable.base = mapping

\* The symbol table pointer is left pointing into the old, unmapped region.
C9_Witness ==
  /\ Parsed
  /\ symbolTable # NullShdr /\ symbolTable.base # mapping
  /\ stringTable # NullShdr

\* C10 as claimed: when the first section of a type is malformed and a later
\* one of that type is well-formed (and already mapped), the later one is
\* selected.
C10_LaterSectionSelected ==
  \A sectionType \in {SHT_SYMTAB, SHT_STRTAB} :
    (Parsed /\ FirstIsMalformed(sectionType) /\ LaterWellFormed(sectionType) # {})
      => /\ Selected(sectionType) # NullShdr
         /\ Selected(sectionType).index = Min(LaterWellFormed(sectionType))

\* C10, amended: a malformed section met by findSection is not selected and
\* ends the search for that type, so no section of that type is selected even
\* if a later one is well-formed; readElfHeader still succeeds, the parser
\* stays enabled, and the search for the other type still runs (a well-formed,
\* already mapped first string table is selected after a malformed symbol
\* table).
C10_MalformedEndsSearch ==
  /\ \A sectionType \in {SHT_SYMTAB, SHT_STRTAB} :
       (Parsed /\ FirstIsMalformed(sectionType))
         => /\ Selected(sectionType) = NullShdr
            /\ mapping # NullPtr /\ elfHeader = mapping
  /\ (elfPc \in {"symbolTable", "stringTable"} /\ FirstIsMalformed(SHT_SYMTAB))
       => parseError = "none" /\ mapping # NullPtr
  /\ (Parsed /\ FirstIsMalformed(SHT_SYMTAB) /\ Candidates(SHT_STRTAB) # {})
       => LET first == Min(Candidates(SHT_STRTAB)) IN
          (~Malformed(ReadShdr(first)) /\ InsideHeaders(first))
            => stringTable # NullShdr /\ stringTable.index = first

\* A malformed symbol table followed by a well-formed one: none is selected.
C10_Witness ==
  /\ Parsed
  /\ file.shdrs = <<Shdr(SHT_SYMTAB, SymOff, 50, 24), Shdr(SHT_SYMTAB, SymOff, 48, 24)>>
  /\ file.shstrndx = MaxSections
  /\ symbolTable = NullShdr

\* The first section of the type is well-formed and ends past the end of the
\* file: findSection calls expandMapping(size) with size > fileSize.
GrowPastFile(sectionType) ==
  /\ Candidates(sectionType) # {}
  /\ LET header == ReadShdr(Min(Candidates(sectionType))) IN
     ~Malformed(header) /\ Wrap(header.sh_offset + header.sh_size) > fileSize

\* C11: expandMapping(size) with size > fileSize fails and leaves mapping,
\* mapLength, elfHeader, symbolTable and stringTable as they were; in
\* findSection only the section looked for is reported missing (null), the
\* parse goes on, and what was established before (the mapping, the header,
\* the other table) is untouched.  For the two header tables the call fails
\* with the members untouched and the parse is given up.
C11_FailedGrowChangesNothing ==
  [][/\ (elfPc = "symbolTable" /\ GrowPastFile(SHT_SYMTAB))
          => /\ symbolTable' = NullShdr
             /\ UNCHANGED <<mapping, mapLength, elfHeader, stringTable>>
             /\ elfPc' = "stringTable" /\ parseError' = "none"
     /\ (elfPc = "stringTable" /\ GrowPastFile(SHT_STRTAB))
          => /\ stringTable' = NullShdr
             /\ UNCHANGED <<mapping, mapLength, elfHeader, symbolTable>>
             /\ elfPc' = "constructed" /\ parseError' = "none"
     /\ (elfPc = "programHeaders"
           /\ Wrap(Ehdr("shoff") + Ehdr("shentsize") * Ehdr("shnum")) > fileSize)
          => parseError' \in {"interp", "shdrGrow"}
     /\ (elfPc = "programHeaders" /\ parseError' = "shdrGrow")
          => /\ UNCHANGED <<mapping, mapLength, elfHeader, symbolTable, stringTable>>
             /\ elfPc' = "parseFailed"
     /\ (elfPc = "readElfHeader" /\ parseError' = "phdrGrow")
          => /\ UNCHANGED <<mapping, mapLength, symbolTable, stringTable>>
             /\ elfHeader' = mapping
             /\ elfPc' = "parseFailed"]_vars

\* The symbol table ends past the end of the file and is reported missing;
\* the string table was then found and the parser answers queries.
C11_Witness ==
  /\ Parsed /\ GrowPastFile(SHT_SYMTAB)
  /\ symbolTable = NullShdr /\ stringTable # NullShdr
  /\ elfHeader = mapping /\ mapping # NullPtr /\ mapLength = fileSize
  /\ answer.op = "getSectionLoadAddress" /\ answer.result # NullPtr

\* Program header i (from 1) of the file is a load segment holding addr, the
\* end p_vaddr + p_memsz (an Elf_Addr sum) included.
LoadSegmentHolds(i, addr) ==
  /\ file.phdrs[i].p_type = PT_LOAD
  /\ file.phdrs[i].p_vaddr <= addr
  /\ addr <= Wrap(file.phdrs[i].p_vaddr + file.phdrs[i].p_memsz)

\* C12: on an enabled parser getSectionLoadAddress(a) answers the p_vaddr of
\* the first program header in table order that is PT_LOAD with
\* p_vaddr <= a <= p_vaddr + p_memsz, and none when there is no such header;
\* a header of another type is never the one answered.
C12_FirstLoadSegment ==
  (elfPc = "constructed" /\ elfHeader # NullPtr /\ answer.op = "getSectionLoadAddress")
    => LET holding == {i \in 1..Len(file.phdrs) : LoadSegmentHolds(i, answer.addr)} IN
       IF holding = {}
         THEN answer.result = NullPtr
         ELSE \E i \in holding :
                /\ \A j \in holding : i <= j
                /\ answer.result = file.phdrs[i].p_vaddr

\* Asked about the last address of a load segment that comes after a header
\* of another type holding the address too.
C12_Witness ==
  /\ Parsed
  /\ file.phdrs = <<Phdr(PT_NOTE, 8, 40), Phdr(PT_LOAD, 24, 24)>>
  /\ answer = Answer("getSectionLoadAddress", 48, 24)

\* Symbol i (from 1) of the file is a function holding addr, the end
\* st_value + st_size excluded.
FunctionHolds(i, addr) ==
  /\ file.syms[i].st_type = STT_FUNC
  /\ file.syms[i].st_value <= addr
  /\ addr < Wrap(file.syms[i].st_value + file.syms[i].st_size)
\* The entries of the selected symbol table.
SymbolEntries == 1..Len(file.syms)
\* The call of op faulted.
Faulted(op) == fault # "none" /\ answer.op = op
\* The answer of findSymbol is the first function symbol holding the address.
AnswersFirstFunction ==
  (answer.op = "findSymbol" /\ fault = "none")
    => LET holding == {i \in SymbolEntries : FunctionHolds(i, answer.addr)} IN
       IF holding = {}
         THEN answer.result = 0
         ELSE /\ answer.result \in holding
              /\ \A j \in holding : answer.result <= j
\* The selected symbol table is one findSymbol can read: the pointer is into
\* the mapping as it is now, the entry size is not 0 and the entries lie in
\* the mapped bytes.
SymbolTableReadable ==
  /\ symbolTable # NullShdr
  /\ symbolTable.base = mapping
  /\ ReadShdr(symbolTable.index).sh_entsize # 0
  /\ SymbolsInside(ReadShdr(symbolTable.index))

\* C13: for a parser with a symbol table and every address a, findSymbol(a)
\* completes and returns the lowest-index entry that is STT_FUNC with
\* st_value <= a < st_value + st_size, none if no entry qualifies (an entry of
\* size 0 never does); without a symbol table it returns none.
C13_FirstFunctionSymbol ==
  /\ (elfPc = "constructed" /\ symbolTable # NullShdr)
       => ~Faulted("findSymbol") /\ AnswersFirstFunction
  /\ (elfPc = "constructed" /\ symbolTable = NullShdr /\ answer.op = "findSymbol")
       => answer.result = 0

\* findSymbol divided by the zero sh_entsize of the selected symbol table.
C13_Witness ==
  /\ Parsed
  /\ symbolTable # NullShdr /\ symbolTable.base = mapping
  /\ ReadShdr(symbolTable.index).sh_entsize = 0
  /\ fault = "SIGFPE" /\ answer.op = "findSymbol"

\* The part of C13 that the code keeps: on a symbol table it can read,
\* findSymbol does not fault and answers the first function symbol holding
\* the address; without a symbol table it answers none.
ReadableTableFirstFunction ==
  /\ (elfPc = "constructed" /\ SymbolTableReadable)
       => ~Faulted("findSymbol") /\ AnswersFirstFunction
  /\ (elfPc = "constructed" /\ symbolTable = NullShdr /\ answer.op = "findSymbol")
       => answer.result = 0

\* The name starting at offset st_name of the selected string table ends
\* (has its NUL byte) inside the table.
TerminatedInTable(symbol) ==
  \E nul \in file.nuls :
    symbol.st_name <= nul /\ nul < ReadShdr(stringTable.index).sh_size
\* The selected string table is one symbolName can read.
StringTableReadable == stringTable # NullShdr /\ stringTable.base = mapping

\* C14: symbolName(symbol) completes; it returns none when there is no string
\* table or st_name >= the string table's sh_size, and otherwise the name at
\* sh_offset + st_name, which is null-terminated inside the string table's
\* bytes [sh_offset, sh_offset + sh_size).
C14_NameInsideStringTable ==
  (elfPc = "constructed" /\ answer.op = "symbolName")
    => LET symbol == file.syms[answer.addr] IN
       /\ fault = "none"
       /\ IF stringTable = NullShdr
            THEN answer.result = 0
            ELSE LET section == ReadShdr(stringTable.index) IN
                 IF symbol.st_name >= section.sh_size
                   THEN answer.result = 0
                   ELSE /\ answer.result = section.sh_offset + symbol.st_name
                        /\ TerminatedInTable(symbol)

\* symbolName returned a name that runs on past the end of the string table.
C14_Witness ==
  /\ Parsed /\ StringTableReadable
  /\ answer.op = "symbolName" /\ answer.result # 0 /\ fault = "none"
  /\ ~TerminatedInTable(file.syms[answer.addr])

\* The part of C14 that the code keeps: with a string table it can read (or
\* none), symbolName does not fault, returns none exactly when there is no
\* string table or st_name >= sh_size, and otherwise the address
\* mapping + sh_offset + st_name.
ReadableTableNameOffset ==
  (elfPc = "constructed" /\ answer.op = "symbolName"
     /\ (stringTable = NullShdr \/ StringTableReadable))
    => LET symbol == file.syms[answer.addr] IN
       /\ fault = "none"
       /\ answer.result =
            IF stringTable = NullShdr
                 \/ symbol.st_name >= ReadShdr(stringTable.index).sh_size
              THEN 0
              ELSE ReadShdr(stringTable.index).sh_offset + symbol.st_name

\* The function symbols of the selected symbol table that hold addr.
Holding(addr) ==
  IF symbolTable = NullShdr
    THEN {}
    ELSE {i \in SymbolEntries : FunctionHolds(i, addr)}

\* C15: _swift_dladdr never fails.  In every state construction can leave the
\* parser in (disabled, no symbol table, no string table, a selected symbol
\* table with sh_entsize 0) and for every address the call completes and
\* returns success, the image path is the binary's path, the load base is
\* getSectionLoadAddress(address), and symbol address and name are both absent
\* when no symbol is found.
C15_ResolveNeverFails ==
  (elfPc = "constructed" /\ answer.op = "dladdr")
    => /\ fault = "none"
       /\ answer.ret = 1
       /\ answer.fname = "path"
       /\ answer.result = getSectionLoadAddress(answer.addr)
       /\ Holding(answer.addr) = {} => answer.saddr = 0 /\ answer.sname = 0

\* _swift_dladdr divided by the zero sh_entsize of the selected symbol table.
C15_Witness ==
  /\ Parsed
  /\ symbolTable # NullShdr /\ symbolTable.base = mapping
  /\ ReadShdr(symbolTable.index).sh_entsize = 0
  /\ answer.op = "dladdr" /\ fault = "SIGFPE" /\ answer.ret = 0

\* The part of C15 that the code keeps: on a disabled parser, and on an
\* enabled one whose tables are absent or readable (inside the mapped bytes,
\* reached through current pointers), _swift_dladdr completes
\* with success, the path, the load base, the first function symbol holding
\* the address and its name, or both absent.
ReadableTablesResolve ==
  (elfPc = "constructed" /\ answer.op = "dladdr"
     /\ (symbolTable = NullShdr \/ SymbolTableReadable)
     /\ (stringTable = NullShdr \/ StringTableReadable))
    => /\ fault = "none"
       /\ answer.ret = 1
       /\ answer.fname = "path"
       /\ answer.result = getSectionLoadAddress(answer.addr)
       /\ IF Holding(answer.addr) = {}
            THEN answer.saddr = 0 /\ answer.sname = 0
            ELSE \E i \in Holding(answer.addr) :
                   /\ \A j \in Holding(answer.addr) : i <= j
                   /\ answer.saddr = file.syms[i].st_value
                   /\ answer.sname =
                        IF stringTable = NullShdr
                             \/ file.syms[i].st_name >= ReadShdr(stringTable.index).sh_size
                          THEN 0
                          ELSE ReadShdr(stringTable.index).sh_offset + file.syms[i].st_name

\* The members of the parser.
ParserState ==
  <<fileSize, mapLength, mapping, elfHeader, symbolTable, stringTable, elfPc>>
\* A thread is past pthread_once, reading through binary.
Reading(t) == dlPc[t] = "resolve"

\* C16: with threads calling _swift_dladdr concurrently, one StaticBinaryELF
\* is constructed, by one thread, in the pthread_once initializer; no thread
\* reads the instance (getPathName, getSectionLoadAddress, findSymbol) before
\* the constructor has returned and binary is assigned; and once constructed,
\* no step modifies the parser's members.
C16_ConstructedOnce ==
  /\ [](/\ instances <= 1 /\ Cardinality(constructors) <= 1
        /\ \A t \in Threads : dlPc[t] = "constructing" => constructors = {t}
        /\ \A t \in Threads :
             Reading(t) => /\ elfPc = "constructed" /\ binary # NullPtr
                           /\ instances = 1 /\ dlToken = "done"
        /\ answer.op = "dladdr" => elfPc = "constructed" /\ instances = 1)
  /\ [][elfPc = "constructed" => UNCHANGED ParserState]_vars

\* Both threads called before the instance existed, and both are now past
\* pthread_once, reading the one instance.
C16_Witness ==
  /\ dlCalls = NThreads
  /\ \A t \in Threads : Reading(t)
  /\ answer = NoAnswer
  /\ instances = 1 /\ Parsed /\ symbolTable # NullShdr

\* C17: in the static registries the callback is never invoked with a block
\* of size 0, whatever was contributed before initialize...Lookup, also when
\* the only contribution had size 0 and when nothing was contributed.
C17_StaticNoEmptyBlock ==
  \A r \in Registries :
    \A i \in DOMAIN staticDelivered[r] : staticDelivered[r][i].size > 0

\* initialize...Lookup was called with nothing contributed, and the callback
\* was invoked with the zero-initialized block.
C17_Witness ==
  \E r \in Registries :
    /\ staticCalls = 1
    /\ staticBlocks[r] = NoBlock
    /\ staticDelivered[r] = <<NoBlock>>

\* C18: every offset and size taken from the file is checked against the
\* mapped length before the bytes it designates are read, also when a sum
\* wraps: whenever the program header table, the section header table or the
\* entries of the selected symbol table are read, they lie below mapLength.
C18_ReadsInsideMapping ==
  /\ elfPc = "programHeaders" => PhdrTableInside
  /\ elfPc \in {"symbolTable", "stringTable"} => ShdrTableInside
  /\ (Parsed /\ answer.op \in {"getSectionLoadAddress", "dladdr"}) => PhdrTableInside
  /\ (Parsed /\ answer.op \in {"findSymbol", "dladdr"}
        /\ symbolTable # NullShdr /\ symbolTable.base = mapping)
       => SymbolsInside(ReadShdr(symbolTable.index))

\* A program header table said to start PhdrSize bytes below 2^SizeBits
\* passed the grow (the sum wrapped to 0) and was read by the PT_INTERP scan
\* and by getSectionLoadAddress, outside the 64 mapped bytes.
C18_Witness ==
  /\ Parsed
  /\ file.phoff = 2 ^ SizeBits - PhdrSize /\ file.phnum = 1
  /\ mapLength = EhdrSize
  /\ answer.op = "getSectionLoadAddress"
  /\ ~PhdrTableInside


\* ------------------------------------------------------------------ C19
\* The block of the contribute call that holds the lock of registry r and has
\* not yet buffered or forwarded it; at most one call is in that position.
InCriticalSection(r) ==
  {t \in Threads : call[t].reg = r /\ pc[t] \in {"locked", "forward", "buffer"}}
NotYetSeen(r) ==
  IF InCriticalSection(r) = {} THEN <<>>
  ELSE <<call[CHOOSE t \in InCriticalSection(r) : TRUE].block>>

\* A thread about to invoke the callback of registry r.
Invoking(r) ==
  {t \in Threads : call[t].reg = r /\ pc[t] \in {"forward", "drain"}}

\* Between locking and returning, every thread holds the lock of its registry.
CallbackUnderLock ==
  \A r \in Registries :
    /\ \A t \in Invoking(r) : lock[r].owner = t
    /\ Cardinality(Invoking(r) \cup InCriticalSection(r)) <= 1
    /\ delivered[r] \o blocks[r].vec \o NotYetSeen(r) = acquired[r]

\* A step that invokes the callback of r is the step of the thread holding r's
\* lock; a step touches the buffer, lock, token and callback of one registry
\* only, the one the stepping thread's call is on.
OneRegistryPerStep ==
  \A r \in Registries :
    /\ delivered'[r] # delivered[r] =>
         \E t \in Invoking(r) : lock[r].owner = t /\ pc'[t] = "idle"
    /\ (blocks'[r] # blocks[r] \/ lock'[r] # lock[r] \/
        delivered'[r] # delivered[r] \/ onceToken'[r] # onceToken[r] \/
        actDone'[r] # actDone[r]) =>
         /\ \E t \in Threads : call[t].reg = r /\ pc'[t] # pc[t]
         /\ \A o \in Registries \ {r} :
              /\ blocks'[o] = blocks[o] /\ lock'[o] = lock[o]
              /\ delivered'[o] = delivered[o] /\ onceToken'[o] = onceToken[o]
              /\ actDone'[o] = actDone[o]

\* C19: a thread about to invoke the callback of a registry holds that
\* registry's lock, at most one thread per registry is between taking the lock
\* and returning, the blocks the callback has seen followed by the buffered
\* ones and the one being added are the blocks of the contribute calls in the
\* order they took the lock, and a step changes the buffer, lock, callback
\* input and activation state of the stepping thread's registry only.
C19_LockOrder == []CallbackUnderLock /\ [][OneRegistryPerStep]_vars

\* Two contribute calls on one registry took the lock in the order opposite to
\* the order they were called in, and activate then drained both.
C19_Witness ==
  \E r \in Registries :
    /\ actDone[r] = 1 /\ AllIdle
    /\ called[r] = <<SectionInfo(1, 8), SectionInfo(2, 8)>>
    /\ acquired[r] = <<SectionInfo(2, 8), SectionInfo(1, 8)>>
    /\ delivered[r] = acquired[r]

\* ------------------------------------------------------------------ C20
\* This step is a step of thread t inside initialize...Lookup on registry r,
\* the call itself included.
ActivateStep(t, r) ==
  /\ pc'[t] # pc[t]
  /\ \/ pc[t] = "idle" /\ pc'[t] \in {"alock", "crashed"} /\ call'[t].reg = r
     \/ pc[t] \in {"alock", "alocked", "drain"} /\ call[t].reg = r

\* C20: once an initialize...Lookup call on a registry has returned, every
\* step of a later initialize...Lookup call on it, from the call to the
\* return, leaves the callback's input and the buffer pointer as they were
\* (null), never reaches the drain loop and does not end the process.
C20_SecondActivateNoOp ==
  [][\A t \in Threads, r \in Registries :
       (actDone[r] >= 1 /\ ActivateStep(t, r)) =>
         /\ pc[t] # "drain" /\ pc'[t] \notin {"drain", "crashed"}
         /\ delivered' = delivered
         /\ blocks' = blocks /\ blocks[r] = NullVector
         /\ onceToken' = onceToken /\ failure' = failure]_vars

\* Contribute, activate, activate, one after the other: the second activate
\* has returned and the callback has seen the one block once.
C20_Witness ==
  \E r \in Registries :
    /\ serial /\ AllIdle /\ actDone[r] = 2
    /\ delivered[r] = <<SectionInfo(1, 8)>>
    /\ blocks[r] = NullVector
=============================================================================
